---- MODULE Spec2Model ----
(***************************************************************************)
(* Model of static/js/app.js: the EmotionAwareRecommender client, its four *)
(* flows (mood-to-recommendation, search, product view, catalog load), the *)
(* like / add_to_cart tracking calls wired to the card buttons, and the    *)
(* page (re)load that runs the constructor.                                *)
(*                                                                         *)
(* Every call of an async function is a "run".  A run suspends at each     *)
(* await of makeRequest with its request in flight; the continuation up to *)
(* the next await (or the end of the function) is one atomic step, as on   *)
(* the event loop.                                                         *)
(* Runs are numbered in the order they are triggered.  A request stays in  *)
(* flight for as long as the scheduler likes; its answer and the           *)
(* continuation it resumes are one step, the answer being the step's input.*)
(***************************************************************************)
EXTENDS Naturals, Sequences, FiniteSets

VARIABLES
    storage,        \* localStorage['userId'] (NULL when absent)
    userId,         \* app.userId
    currentEmotion, \* app.currentEmotion
    runs,           \* run number -> the async call's position, argument, request in flight
    started,        \* number of user actions so far (runs triggered, page reloads)
    dom,            \* the elements of the DOM contract
    alerts,         \* number of window.alert calls of this page
    consoleErrors,  \* number of console.error calls of this page
    modalShown,     \* history: the bootstrap.Modal.show calls, <<run, product>> each
    searchShownFor, \* history: the emotion_context sent with the search whose results
                    \* are shown, and currentEmotion when they were rendered
    bootStorage,    \* history: what the first constructor found in localStorage
    generated,      \* history: number of generateUserId calls
    storageWrites,  \* history: number of localStorage.setItem calls
    reloads         \* history: number of page reloads

vars == <<storage, userId, currentEmotion, runs, started, dom, alerts,
          consoleErrors, modalShown, searchShownFor, bootStorage, generated,
          storageWrites, reloads>>

----------------------------------------------------------------------------
\* Bounds and input sets

MaxFlows == 3

NULL == "null"
Undefined == "undefined"
Products == {"p1", "p2"}
Sentiments == {[primary_emotion |-> "joy", mood_category |-> "positive"],
               [primary_emotion |-> "sad", mood_category |-> "negative"]}
ProductLists == {<< >>, <<"p1", "p2">>}
SimilarLists == {<< >>, <<"p2", "p1", "p2", "p1">>}
TextInputs == {<< >>, <<" ">>, <<"a">>, <<" ", "a", " ">>}
StoredIds == {"user_k"}
RandomSuffixes == {"a", "b"}
FirstVisitSuffixes == {"a"}
TrackActions == {"like", "add_to_cart"}
RunIds == 1..MaxFlows

----------------------------------------------------------------------------
\* Pure helpers

\* JavaScript truthiness of a string-or-null value (null and '' are falsy)
Truthy(v) == v /= NULL /\ v /= ""

\* JavaScript truthiness of a string held as a sequence of characters
NonEmptyText(s) == s /= << >>

IsSpace(c) == c = " "

RECURSIVE TrimStart(_)
TrimStart(s) ==
    IF s /= << >> /\ IsSpace(Head(s)) THEN TrimStart(Tail(s)) ELSE s

RECURSIVE TrimEnd(_)
TrimEnd(s) ==
    IF s /= << >> /\ IsSpace(s[Len(s)]) THEN TrimEnd(SubSeq(s, 1, Len(s) - 1)) ELSE s

\* mutant of Trim: the input is used as typed
TrimNothing(s) == s

Trim(s) == TrimEnd(TrimStart(s))

Slice(s, n) == SubSeq(s, 1, IF Len(s) < n THEN Len(s) ELSE n)

Range(s) == {s[i] : i \in DOMAIN s}

\* A parameter with a default value: the default applies to an omitted argument only
DefaultParam(v, d) == IF v = Undefined THEN d ELSE v

----------------------------------------------------------------------------
\* The API layer: the fetch each method hands to makeRequest

RecommendationsLimit == 8
SearchLimit == 10
SimilarShown == 3

NoReq == [endpoint |-> "none"]

Fetch(endpoint, method, body) ==
    [endpoint |-> "/api" \o endpoint, method |-> method,
     content_type |-> "application/json", body |-> body]

AnalyzeMoodReq(text) ==
    Fetch("/analyze-sentiment", "POST", [text |-> text])

GetRecommendationsReq(context) ==
    Fetch("/recommendations", "POST",
          [user_id |-> userId, context |-> context, limit |-> RecommendationsLimit])

SearchProductsReq(query, emotionContext) ==
    Fetch("/search", "POST",
          [query |-> query, emotion_context |-> DefaultParam(emotionContext, NULL),
           limit |-> SearchLimit])

GetAllProductsReq == Fetch("/products", "GET", [none |-> TRUE])

TrackInteractionReq(productId, action, emotion) ==
    Fetch("/track-interaction", "POST",
          [user_id |-> userId, product_id |-> productId, action |-> action,
           emotion |-> DefaultParam(emotion, NULL)])

GetSimilarProductsReq(productId) ==
    Fetch("/similar-products/" \o productId, "GET", [none |-> TRUE])

\* mutant of MakeRequest: the catch block rethrows without console.error
MakeRequestSilent(resp) ==
    IF resp.kind = "ok"
    THEN [threw |-> FALSE, value |-> resp.body, logged |-> 0]
    ELSE [threw |-> TRUE, value |-> [success |-> FALSE], logged |-> 0]

\* What makeRequest gives its caller for a response: the parsed body, or a
\* thrown error after one console.error
MakeRequest(resp) ==
    IF resp.kind = "ok"
    THEN [threw |-> FALSE, value |-> resp.body, logged |-> 0]
    ELSE [threw |-> TRUE, value |-> [success |-> FALSE], logged |-> 1]

\* The answers the backend (or the transport) can give to a request; a JSON
\* body has the shape its caller reads.
\* "transport" is a rejected fetch, "http" a non-2xx status, "badjson" a 2xx
\* response whose body does not parse, "ok" a 2xx response with a JSON body.
Failures == {[kind |-> "transport"], [kind |-> "http"], [kind |-> "badjson"]}

SimilarBodies(p) ==
    {[success |-> TRUE, target_product |-> p, similar_products |-> l] : l \in SimilarLists}
    \cup {[success |-> FALSE]}

OkBodies(req) ==
    IF req.endpoint = "/api/analyze-sentiment"
    THEN {[success |-> TRUE, sentiment |-> s] : s \in Sentiments}
         \cup {[success |-> FALSE]}
    ELSE IF req.endpoint = "/api/recommendations"
    THEN {[success |-> TRUE, recommendations |-> l] : l \in ProductLists}
         \cup {[success |-> FALSE]}
    ELSE IF req.endpoint = "/api/search"
    THEN {[success |-> TRUE, results |-> l] : l \in ProductLists}
         \cup {[success |-> FALSE]}
    ELSE IF req.endpoint = "/api/products"
    THEN {[success |-> TRUE, products |-> l] : l \in ProductLists}
         \cup {[success |-> FALSE]}
    ELSE IF req.endpoint = "/api/track-interaction"
    THEN {[success |-> TRUE]}
    ELSE UNION {IF req.endpoint = "/api/similar-products/" \o p
                THEN SimilarBodies(p) ELSE {} : p \in Products}

Responses(req) == Failures \cup {[kind |-> "ok", body |-> b] : b \in OkBodies(req)}

Failed(resp) == resp.kind /= "ok"

----------------------------------------------------------------------------
\* Rendering

RenderProductCard(product, extraInfo) ==
    [product_id |-> product,
     class |-> IF extraInfo.confidence_score THEN "recommendation-card" ELSE "product-card",
     buttons |-> {"view", "like", "add_to_cart"}]

RenderCards(list, extraInfo) ==
    [i \in DOMAIN list |-> RenderProductCard(list[i], extraInfo)]

RenderSearchItem(product) ==
    [product_id |-> product, class |-> "search-result-item", buttons |-> {"view", "like"}]

RenderSimilarItem(product) ==
    [product_id |-> product, class |-> "card", buttons |-> {"view"}]

AnalyzeBusyLabel == "Analyzing..."
AnalyzeDefaultLabel == "Get Personalized Recommendations"
SearchBusyLabel == "spinner"
SearchDefaultLabel == "Search"

InitialDom ==
    [analyzeMoodBtn |-> [disabled |-> FALSE, label |-> AnalyzeDefaultLabel],
     searchBtn |-> [disabled |-> FALSE, label |-> SearchDefaultLabel],
     sentimentAnalysis |-> [kind |-> "blank"],
     recommendationsList |-> << >>,
     recommendationsSection |-> [display |-> "none"],
     searchResults |-> [kind |-> "blank", query |-> << >>, items |-> << >>],
     productsList |-> [kind |-> "blank", cards |-> << >>],
     productModal |-> [open |-> FALSE, title |-> NULL, similar |-> << >>]]

\* The buttons on the page: every rendered item with a button of that kind
Items ==
    Range(dom.recommendationsList)
    \cup Range(dom.productsList.cards)
    \cup Range(dom.searchResults.items)
    \cup (IF dom.productModal.open THEN Range(dom.productModal.similar) ELSE {})

HasButton(kind, product) ==
    \E it \in Items : it.product_id = product /\ kind \in it.buttons

----------------------------------------------------------------------------
\* Runs

NothingShown == [requested |-> "none", rendered_under |-> "none"]

Idle == [type |-> "none", pc |-> "done", text |-> << >>, product |-> NULL,
         req |-> NoReq, sent |-> << >>]

\* The run suspends at an await of makeRequest with req in flight
Await(run, pc, req) ==
    [run EXCEPT !.pc = pc, !.req = req, !.sent = Append(@, req)]

\* resp is an answer to the request run r is waiting on
Answers(resp, r) == runs[r].req /= NoReq /\ resp \in Responses(runs[r].req)

----------------------------------------------------------------------------
\* Construction and page load

\* generateUserId with Math.random's digits `suffix`: the new identity, stored
GenerateUserId(suffix) ==
    [userId |-> "user_" \o suffix, storage |-> "user_" \o suffix,
     generated |-> 1, writes |-> 1]

\* mutant of Construct: the stored identity is never read
ConstructAlwaysGenerates(stored, suffix) == GenerateUserId(suffix)

\* new EmotionAwareRecommender() on a page whose localStorage holds `stored`
Construct(stored, suffix) ==
    IF Truthy(stored)
    THEN [userId |-> stored, storage |-> stored, generated |-> 0, writes |-> 0]
    ELSE GenerateUserId(suffix)

\* The page after its first load, localStorage holding `stored` before it and
\* Math.random yielding `suffix`
Boot(stored, suffix) ==
    LET c == Construct(stored, suffix) IN
    /\ bootStorage = stored
    /\ storage = c.storage
    /\ userId = c.userId
    /\ generated = c.generated
    /\ storageWrites = c.writes
    /\ currentEmotion = NULL
    /\ runs = [r \in RunIds |-> Idle]
    /\ started = 0
    /\ dom = InitialDom
    /\ alerts = 0
    /\ consoleErrors = 0
    /\ modalShown = << >>
    /\ searchShownFor = NothingShown
    /\ reloads = 0

\* A first visit: nothing in localStorage
Init == \E suffix \in FirstVisitSuffixes : Boot(NULL, suffix)

\* Any visit: localStorage empty or holding the identity of an earlier visit
InitAnyStorage ==
    \E stored \in {NULL} \cup StoredIds, suffix \in RandomSuffixes : Boot(stored, suffix)

\* The page is reloaded: the script runs again on a fresh document, the
\* pending continuations of the old page are gone, localStorage is kept
Reload ==
    /\ started < MaxFlows
    /\ \E suffix \in RandomSuffixes :
        LET c == Construct(storage, suffix) IN
        /\ storage' = c.storage
        /\ userId' = c.userId
        /\ generated' = generated + c.generated
        /\ storageWrites' = storageWrites + c.writes
    /\ currentEmotion' = NULL
    /\ runs' = [r \in RunIds |-> Idle]
    /\ dom' = InitialDom
    /\ alerts' = 0
    /\ consoleErrors' = 0
    /\ modalShown' = << >>
    /\ searchShownFor' = NothingShown
    /\ reloads' = reloads + 1
    /\ started' = started + 1
    /\ UNCHANGED bootStorage

identity == <<storage, userId, bootStorage, generated, storageWrites, reloads>>

----------------------------------------------------------------------------
\* Continuations: what the code between two awaits does to the page, given
\* what makeRequest returned or threw.  Keep(r) is "nothing changed".

Keep(r) ==
    [currentEmotion |-> currentEmotion, dom |-> dom, run |-> runs[r],
     alerts |-> alerts, consoleErrors |-> consoleErrors,
     modalShown |-> modalShown, searchShownFor |-> searchShownFor]

Apply(r, e) ==
    /\ currentEmotion' = e.currentEmotion
    /\ dom' = e.dom
    /\ runs' = [runs EXCEPT ![r] = e.run]
    /\ alerts' = e.alerts
    /\ consoleErrors' = e.consoleErrors
    /\ modalShown' = e.modalShown
    /\ searchShownFor' = e.searchShownFor
    /\ UNCHANGED <<started, identity>>

\* A new run: the call of an async function up to its first await
Start(run) ==
    /\ runs' = [runs EXCEPT ![started + 1] = run]
    /\ started' = started + 1

----------------------------------------------------------------------------
\* Mood-to-recommendation flow

\* mutant of AnalyzeFinally: the control is not restored
AnalyzeFinallyLeavesBusy(d) == d

\* the finally block of analyzeMoodAndRecommend
AnalyzeFinally(d) ==
    [d EXCEPT !.analyzeMoodBtn = [disabled |-> FALSE, label |-> AnalyzeDefaultLabel]]

\* analyzeMoodAndRecommend() with `input` typed into moodInput, up to the first
\* await.  It is the handler of analyzeMoodBtn, which takes no click while disabled.
AnalyzeMoodAndRecommend(input) ==
    /\ started < MaxFlows
    /\ ~dom.analyzeMoodBtn.disabled
    /\ LET moodText == Trim(input) IN
       IF ~NonEmptyText(moodText)
       THEN /\ alerts' = alerts + 1
            /\ started' = started + 1
            /\ UNCHANGED <<runs, dom>>
       ELSE /\ dom' = [dom EXCEPT !.analyzeMoodBtn =
                          [disabled |-> TRUE, label |-> AnalyzeBusyLabel]]
            /\ Start(Await([Idle EXCEPT !.type = "mood", !.text = moodText],
                           "analyze", AnalyzeMoodReq(moodText)))
            /\ UNCHANGED alerts
    /\ UNCHANGED <<currentEmotion, consoleErrors, modalShown, searchShownFor, identity>>

\* from the answer to analyzeMood to the await of getRecommendations, or the end
AfterAnalyzeMood(r, out) ==
    IF out.threw
    THEN [Keep(r) EXCEPT !.consoleErrors = @ + out.logged + 1,
                         !.alerts = @ + 1,
                         !.dom = AnalyzeFinally(@),
                         !.run = Idle]
    ELSE IF out.value.success
    THEN LET sentiment == out.value.sentiment IN
         [Keep(r) EXCEPT !.currentEmotion = sentiment.primary_emotion,
                         !.dom.sentimentAnalysis =
                             [kind |-> "sentiment", sentiment |-> sentiment],
                         !.run = Await(@, "recommend",
                                   GetRecommendationsReq(
                                       [mood |-> sentiment.primary_emotion,
                                        mood_category |-> sentiment.mood_category,
                                        user_input |-> @.text]))]
    ELSE [Keep(r) EXCEPT !.dom = AnalyzeFinally(@), !.run = Idle]

MoodAnalyzed(r, resp) ==
    /\ runs[r].type = "mood" /\ runs[r].pc = "analyze" /\ Answers(resp, r)
    /\ Apply(r, AfterAnalyzeMood(r, MakeRequest(resp)))

\* mutant of AfterRecommendations: a failed call clears currentEmotion
AfterRecommendationsForgets(r, out) ==
    IF out.threw
    THEN [Keep(r) EXCEPT !.currentEmotion = NULL,
                         !.consoleErrors = @ + out.logged + 1,
                         !.alerts = @ + 1,
                         !.dom = AnalyzeFinally(@),
                         !.run = Idle]
    ELSE IF out.value.success
    THEN [Keep(r) EXCEPT !.dom = AnalyzeFinally(
                             [@ EXCEPT !.recommendationsList =
                                           RenderCards(out.value.recommendations,
                                                       [confidence_score |-> TRUE]),
                                       !.recommendationsSection = [display |-> "block"]]),
                         !.run = Idle]
    ELSE [Keep(r) EXCEPT !.dom = AnalyzeFinally(@), !.run = Idle]

\* from the answer to getRecommendations to the end
AfterRecommendations(r, out) ==
    IF out.threw
    THEN [Keep(r) EXCEPT !.consoleErrors = @ + out.logged + 1,
                         !.alerts = @ + 1,
                         !.dom = AnalyzeFinally(@),
                         !.run = Idle]
    ELSE IF out.value.success
    THEN [Keep(r) EXCEPT !.dom = AnalyzeFinally(
                             [@ EXCEPT !.recommendationsList =
                                           RenderCards(out.value.recommendations,
                                                       [confidence_score |-> TRUE]),
                                       !.recommendationsSection = [display |-> "block"]]),
                         !.run = Idle]
    ELSE [Keep(r) EXCEPT !.dom = AnalyzeFinally(@), !.run = Idle]

MoodRecommended(r, resp) ==
    /\ runs[r].type = "mood" /\ runs[r].pc = "recommend" /\ Answers(resp, r)
    /\ Apply(r, AfterRecommendations(r, MakeRequest(resp)))

----------------------------------------------------------------------------
\* Search flow

\* the finally block of performSearch
SearchFinally(d) ==
    [d EXCEPT !.searchBtn = [disabled |-> FALSE, label |-> SearchDefaultLabel]]

\* mutant of PerformSearchReq: the emotion argument is left out
PerformSearchReqNoEmotion(query) == SearchProductsReq(query, Undefined)

\* the search call of performSearch
PerformSearchReq(query) == SearchProductsReq(query, currentEmotion)

\* performSearch() with `input` typed into searchInput, up to the await.  It is
\* the handler of searchBtn, which takes no click while disabled.
PerformSearch(input) ==
    /\ started < MaxFlows
    /\ ~dom.searchBtn.disabled
    /\ LET query == Trim(input) IN
       IF ~NonEmptyText(query)
       THEN /\ alerts' = alerts + 1
            /\ started' = started + 1
            /\ UNCHANGED <<runs, dom>>
       ELSE /\ dom' = [dom EXCEPT !.searchBtn =
                          [disabled |-> TRUE, label |-> SearchBusyLabel]]
            /\ Start(Await([Idle EXCEPT !.type = "search", !.text = query],
                           "search", PerformSearchReq(query)))
            /\ UNCHANGED alerts
    /\ UNCHANGED <<currentEmotion, consoleErrors, modalShown, searchShownFor, identity>>

\* from the answer to searchProducts to the end
AfterSearch(r, out) ==
    IF out.threw
    THEN [Keep(r) EXCEPT !.consoleErrors = @ + out.logged + 1,
                         !.alerts = @ + 1,
                         !.dom = SearchFinally(@),
                         !.run = Idle]
    ELSE IF out.value.success
    THEN LET results == out.value.results IN
         [Keep(r) EXCEPT !.dom = SearchFinally(
                             [@ EXCEPT !.searchResults =
                                 IF Len(results) = 0
                                 THEN [kind |-> "empty-message", query |-> << >>,
                                       items |-> << >>]
                                 ELSE [kind |-> "results", query |-> runs[r].text,
                                       items |-> [i \in DOMAIN results |->
                                                     RenderSearchItem(results[i])]]]),
                         !.searchShownFor =
                             [requested |-> runs[r].req.body.emotion_context,
                              rendered_under |-> currentEmotion],
                         !.run = Idle]
    ELSE [Keep(r) EXCEPT !.dom = SearchFinally(@), !.run = Idle]

SearchDone(r, resp) ==
    /\ runs[r].type = "search" /\ runs[r].pc = "search" /\ Answers(resp, r)
    /\ Apply(r, AfterSearch(r, MakeRequest(resp)))

----------------------------------------------------------------------------
\* Product view flow

\* mutant of ViewProductCalls: the similar-products call comes first
ViewProductCallsSimilarFirst(productId) ==
    <<GetSimilarProductsReq(productId),
      TrackInteractionReq(productId, "view", currentEmotion)>>

\* mutant of ViewProductCalls: the tracking call is made without the emotion
ViewProductCallsNoEmotion(productId) ==
    <<TrackInteractionReq(productId, "view", Undefined),
      GetSimilarProductsReq(productId)>>

\* the two awaited calls of viewProduct, in program order
ViewProductCalls(productId) ==
    <<TrackInteractionReq(productId, "view", currentEmotion),
      GetSimilarProductsReq(productId)>>

\* app.viewProduct(productId) from a View button, up to the first await
ViewProduct(productId) ==
    /\ started < MaxFlows
    /\ HasButton("view", productId)
    /\ Start(Await([Idle EXCEPT !.type = "view", !.product = productId],
                   "track", ViewProductCalls(productId)[1]))
    /\ UNCHANGED <<currentEmotion, dom, alerts, consoleErrors, modalShown,
                   searchShownFor, identity>>

\* from the answer to trackInteraction to the await of getSimilarProducts, or the end
AfterViewTrack(r, out) ==
    IF out.threw
    THEN [Keep(r) EXCEPT !.consoleErrors = @ + out.logged + 1,
                         !.alerts = @ + 1,
                         !.run = Idle]
    ELSE [Keep(r) EXCEPT !.run = Await(@, "similar", ViewProductCalls(@.product)[2])]

ViewTracked(r, resp) ==
    /\ runs[r].type = "view" /\ runs[r].pc = "track" /\ Answers(resp, r)
    /\ Apply(r, AfterViewTrack(r, MakeRequest(resp)))

\* mutant of AfterViewSimilar: an overlay that is already open is left alone
AfterViewSimilarKeepsOpenOverlay(r, out) ==
    IF out.threw
    THEN [Keep(r) EXCEPT !.consoleErrors = @ + out.logged + 1,
                         !.alerts = @ + 1,
                         !.run = Idle]
    ELSE IF out.value.success /\ ~dom.productModal.open
    THEN LET product == out.value.target_product
             similarProducts == out.value.similar_products
             shown == Slice(similarProducts, SimilarShown)
         IN
         [Keep(r) EXCEPT !.dom.productModal =
                             [open |-> TRUE, title |-> product,
                              similar |-> [i \in DOMAIN shown |->
                                              RenderSimilarItem(shown[i])]],
                         !.modalShown = Append(@, <<r, product>>),
                         !.run = Idle]
    ELSE [Keep(r) EXCEPT !.run = Idle]

\* from the answer to getSimilarProducts to the end
AfterViewSimilar(r, out) ==
    IF out.threw
    THEN [Keep(r) EXCEPT !.consoleErrors = @ + out.logged + 1,
                         !.alerts = @ + 1,
                         !.run = Idle]
    ELSE IF out.value.success
    THEN LET product == out.value.target_product
             similarProducts == out.value.similar_products
             shown == Slice(similarProducts, SimilarShown)
         IN
         [Keep(r) EXCEPT !.dom.productModal =
                             [open |-> TRUE, title |-> product,
                              similar |-> [i \in DOMAIN shown |->
                                              RenderSimilarItem(shown[i])]],
                         !.modalShown = Append(@, <<r, product>>),
                         !.run = Idle]
    ELSE [Keep(r) EXCEPT !.run = Idle]

ViewSimilar(r, resp) ==
    /\ runs[r].type = "view" /\ runs[r].pc = "similar" /\ Answers(resp, r)
    /\ Apply(r, AfterViewSimilar(r, MakeRequest(resp)))

----------------------------------------------------------------------------
\* The like and add_to_cart buttons: app.trackInteraction(id, action) from onclick

TrackButton(productId, action) ==
    /\ started < MaxFlows
    /\ HasButton(action, productId)
    /\ Start(Await([Idle EXCEPT !.type = "button", !.product = productId],
                   "track", TrackInteractionReq(productId, action, Undefined)))
    /\ UNCHANGED <<currentEmotion, dom, alerts, consoleErrors, modalShown,
                   searchShownFor, identity>>

\* the promise of the onclick call settles; nothing handles its rejection
AfterButtonTrack(r, out) ==
    [Keep(r) EXCEPT !.consoleErrors = @ + out.logged, !.run = Idle]

ButtonTracked(r, resp) ==
    /\ runs[r].type = "button" /\ runs[r].pc = "track" /\ Answers(resp, r)
    /\ Apply(r, AfterButtonTrack(r, MakeRequest(resp)))

----------------------------------------------------------------------------
\* Catalog load flow

LoadAllProducts ==
    /\ started < MaxFlows
    /\ Start(Await([Idle EXCEPT !.type = "catalog"], "products", GetAllProductsReq))
    /\ UNCHANGED <<currentEmotion, dom, alerts, consoleErrors, modalShown,
                   searchShownFor, identity>>

AfterGetAllProducts(r, out) ==
    IF out.threw
    THEN [Keep(r) EXCEPT !.consoleErrors = @ + out.logged + 1,
                         !.dom.productsList = [kind |-> "error-message", cards |-> << >>],
                         !.run = Idle]
    ELSE IF out.value.success
    THEN [Keep(r) EXCEPT !.dom.productsList =
                             [kind |-> "cards",
                              cards |-> RenderCards(out.value.products,
                                                    [confidence_score |-> FALSE])],
                         !.run = Idle]
    ELSE [Keep(r) EXCEPT !.run = Idle]

CatalogLoaded(r, resp) ==
    /\ runs[r].type = "catalog" /\ runs[r].pc = "products" /\ Answers(resp, r)
    /\ Apply(r, AfterGetAllProducts(r, MakeRequest(resp)))

----------------------------------------------------------------------------

\* the runs suspended at an await
InFlight == {r \in RunIds : runs[r].req /= NoReq}

Next ==
    \/ \E input \in TextInputs : AnalyzeMoodAndRecommend(input)
    \/ \E r \in InFlight : \E resp \in Responses(runs[r].req) : MoodAnalyzed(r, resp)
    \/ \E r \in InFlight : \E resp \in Responses(runs[r].req) : MoodRecommended(r, resp)
    \/ \E input \in TextInputs : PerformSearch(input)
    \/ \E r \in InFlight : \E resp \in Responses(runs[r].req) : SearchDone(r, resp)
    \/ \E p \in Products : ViewProduct(p)
    \/ \E r \in InFlight : \E resp \in Responses(runs[r].req) : ViewTracked(r, resp)
    \/ \E r \in InFlight : \E resp \in Responses(runs[r].req) : ViewSimilar(r, resp)
    \/ \E p \in Products, a \in TrackActions : TrackButton(p, a)
    \/ \E r \in InFlight : \E resp \in Responses(runs[r].req) : ButtonTracked(r, resp)
    \/ LoadAllProducts
    \/ \E r \in InFlight : \E resp \in Responses(runs[r].req) : CatalogLoaded(r, resp)
    \/ Reload

Spec == Init /\ [][Next]_vars

SpecAnyStorage == InitAnyStorage /\ [][Next]_vars

----------------------------------------------------------------------------
\* Vocabulary of the properties

IsTrack(req, productId, action) ==
    /\ req.endpoint = "/api/track-interaction"
    /\ req.body.product_id = productId
    /\ req.body.action = action

IsSimilar(req, productId) == req.endpoint = "/api/similar-products/" \o productId

CarriesUserId(req) ==
    req.endpoint \in {"/api/recommendations", "/api/track-interaction"}

Succeeded(resp) == resp.kind = "ok" /\ resp.body.success

OnlyWhitespace(input) == \A i \in DOMAIN input : input[i] = " "

AnalyzeBtnReady == [disabled |-> FALSE, label |-> AnalyzeDefaultLabel]
SearchBtnReady == [disabled |-> FALSE, label |-> SearchDefaultLabel]

\* the step resumes run r of the given flow with the answer resp
MoodStep(r, resp) == MoodAnalyzed(r, resp) \/ MoodRecommended(r, resp)
ViewStep(r, resp) == ViewTracked(r, resp) \/ ViewSimilar(r, resp)
Resumed(r, resp) ==
    \/ MoodStep(r, resp)
    \/ SearchDone(r, resp)
    \/ ViewStep(r, resp)
    \/ ButtonTracked(r, resp)
    \/ CatalogLoaded(r, resp)

\* the step did something to run r, which was waiting for an answer
Stepped(r) == runs'[r] /= runs[r]

\* the step is a user action
Triggered == started' /= started

\* the requests issued by the step (a run's `sent` grows by the request it awaits)
IssuedBy(r) ==
    IF reloads' = reloads /\ Len(runs'[r].sent) > Len(runs[r].sent)
    THEN {runs'[r].req} ELSE {}

----------------------------------------------------------------------------
\* C1: in every run of viewProduct(p) the first request issued is the
\* track-interaction request for p with action "view", and a similar-products
\* request for p is issued only after it, whatever becomes of that request.
C1_TrackBeforeSimilar ==
    \A r \in RunIds :
        runs[r].type = "view" =>
            /\ Len(runs[r].sent) >= 1
            /\ IsTrack(runs[r].sent[1], runs[r].product, "view")
            /\ \A i \in DOMAIN runs[r].sent :
                  IsSimilar(runs[r].sent[i], runs[r].product) =>
                      \E j \in 1..(i - 1) :
                          IsTrack(runs[r].sent[j], runs[r].product, "view")

\* a view run whose similar-products request is in flight
C1_Witness ==
    \E r \in RunIds :
        /\ runs[r].type = "view"
        /\ Len(runs[r].sent) = 2
        /\ IsSimilar(runs[r].req, runs[r].product)

\* C2: a failed track-interaction call of the view flow raises no alert, and the
\* flow goes on to issue the similar-products request.
C2_TrackFailureIsSwallowed ==
    [][\A r \in InFlight : Stepped(r) => \A resp \in Responses(runs[r].req) :
          (Failed(resp) /\ ViewTracked(r, resp)) =>
              /\ alerts' = alerts
              /\ consoleErrors' > consoleErrors
              /\ IsSimilar(runs'[r].req, runs[r].product)]_vars

\* C3: a mood or search run that gets a failing answer to any of its requests
\* ends in that step with its trigger control enabled under its default label
\* and one alert raised; no other step of such a run raises an alert.
C3_OneAlertAndControlRestored ==
    [][/\ \A r \in InFlight : Stepped(r) => \A resp \in Responses(runs[r].req) :
             /\ (Failed(resp) /\ MoodStep(r, resp)) =>
                    /\ alerts' = alerts + 1
                    /\ runs'[r] = Idle
                    /\ dom'.analyzeMoodBtn = AnalyzeBtnReady
             /\ (Failed(resp) /\ SearchDone(r, resp)) =>
                    /\ alerts' = alerts + 1
                    /\ runs'[r] = Idle
                    /\ dom'.searchBtn = SearchBtnReady
             /\ (~Failed(resp) /\ (MoodStep(r, resp) \/ SearchDone(r, resp))) =>
                    alerts' = alerts
       /\ Triggered => \A input \in TextInputs :
             (~OnlyWhitespace(input)
                 /\ (AnalyzeMoodAndRecommend(input) \/ PerformSearch(input)))
             => alerts' = alerts]_vars

\* the mood flow after a successful analysis and a failed recommendations call
C3_Witness ==
    /\ started = 1 /\ reloads = 0
    /\ alerts = 1
    /\ dom.sentimentAnalysis.kind = "sentiment"
    /\ dom.recommendationsSection.display = "none"
    /\ dom.analyzeMoodBtn = AnalyzeBtnReady
    /\ \A r \in RunIds : runs[r] = Idle

\* C4 as stated: every failed request is logged and raises an alert.
C4_EveryFailureAlerts ==
    [][\A r \in InFlight : Stepped(r) => \A resp \in Responses(runs[r].req) :
          (Failed(resp) /\ Resumed(r, resp)) =>
              /\ consoleErrors' > consoleErrors
              /\ alerts' = alerts + 1]_vars

\* C4 as amended: every failed request is logged; it raises one alert in the
\* mood, search and product view flows; a failed catalog load puts the error
\* message into productsList and raises no alert; a failed like / add_to_cart
\* call raises no alert and changes nothing on the page.
C4_FailureHandlingByFlow ==
    [][\A r \in InFlight : Stepped(r) => \A resp \in Responses(runs[r].req) :
          Failed(resp) =>
              /\ Resumed(r, resp) => consoleErrors' > consoleErrors
              /\ (MoodStep(r, resp) \/ SearchDone(r, resp) \/ ViewStep(r, resp))
                     => alerts' = alerts + 1
              /\ CatalogLoaded(r, resp) =>
                     /\ alerts' = alerts
                     /\ dom'.productsList.kind = "error-message"
              /\ ButtonTracked(r, resp) =>
                     /\ alerts' = alerts
                     /\ dom' = dom]_vars

\* a failed like / add_to_cart call and a failed catalog load, and no alert
C4_Witness ==
    /\ dom.productsList.kind = "error-message"
    /\ consoleErrors = 3
    /\ alerts = 0

\* C5: submitting an empty or whitespace-only mood text or search query issues
\* no request, leaves the trigger control enabled with its label, and leaves
\* currentEmotion and every container as they were.
C5_BlankInputDoesNothing ==
    [][Triggered => \A input \in TextInputs : OnlyWhitespace(input) =>
          /\ AnalyzeMoodAndRecommend(input) =>
                 /\ runs' = runs
                 /\ dom' = dom
                 /\ dom'.analyzeMoodBtn = AnalyzeBtnReady
                 /\ currentEmotion' = currentEmotion
          /\ PerformSearch(input) =>
                 /\ runs' = runs
                 /\ dom' = dom
                 /\ dom'.searchBtn = SearchBtnReady
                 /\ currentEmotion' = currentEmotion]_vars

\* a blank submission is all that has happened
C5_Witness ==
    /\ started = 1 /\ reloads = 0
    /\ alerts = 1 /\ consoleErrors = 0
    /\ dom = InitialDom
    /\ \A r \in RunIds : runs[r] = Idle

\* C6: a client that found no identity in localStorage generated one once and
\* wrote it once; one that found an identity generated and wrote nothing and
\* uses the stored one; across reloads app.userId is the stored identity, and
\* every recommendations and track-interaction request carries it.
C6_OneIdentity ==
    /\ Truthy(storage)
    /\ userId = storage
    /\ bootStorage = NULL => (generated = 1 /\ storageWrites = 1)
    /\ bootStorage /= NULL => (generated = 0 /\ storageWrites = 0 /\ storage = bootStorage)
    /\ \A r \in RunIds : \A i \in DOMAIN runs[r].sent :
          CarriesUserId(runs[r].sent[i]) => runs[r].sent[i].body.user_id = storage

\* a fresh client, reloaded, with a recommendations request in flight
C6_Witness ==
    /\ bootStorage = NULL
    /\ reloads = 1
    /\ \E r \in RunIds : runs[r].req.endpoint = "/api/recommendations"

\* C7 as stated: once currentEmotion holds an emotion, every search and every
\* track-interaction request issued carries it.
C7_EmotionThreaded ==
    [][\A r \in RunIds : \A req \in IssuedBy(r) :
          currentEmotion /= NULL =>
              /\ req.endpoint = "/api/search" => req.body.emotion_context = currentEmotion
              /\ req.endpoint = "/api/track-interaction" =>
                     req.body.emotion = currentEmotion]_vars

\* C7 as amended: every search request and every track-interaction request of
\* a product view carries currentEmotion as it is when the request is issued;
\* the like and add_to_cart requests carry null.
C7_EmotionInSearchAndView ==
    [][\A r \in RunIds : \A req \in IssuedBy(r) :
          /\ req.endpoint = "/api/search" => req.body.emotion_context = currentEmotion
          /\ req.endpoint = "/api/track-interaction" =>
                 req.body.emotion =
                     IF req.body.action = "view" THEN currentEmotion ELSE NULL]_vars

\* after a successful analysis: a view's tracking request with the emotion and
\* a button's tracking request without it, both in flight
C7_Witness ==
    /\ currentEmotion /= NULL
    /\ \E r \in RunIds :
          /\ runs[r].type = "view" /\ runs[r].pc = "track"
          /\ runs[r].req.body.emotion = currentEmotion
    /\ \E r \in RunIds :
          /\ runs[r].type = "button"
          /\ runs[r].req.body.emotion = NULL

\* C8: currentEmotion is null when the page starts; the step that processes a
\* successful analysis answer sets it to that answer's primary_emotion and
\* issues the recommendations request for it; no other step changes it.
C8_CurrentEmotion ==
    /\ currentEmotion = NULL
    /\ [][/\ \A r \in InFlight : Stepped(r) => \A resp \in Responses(runs[r].req) :
                (Succeeded(resp) /\ MoodAnalyzed(r, resp)) =>
                    /\ currentEmotion' = resp.body.sentiment.primary_emotion
                    /\ runs'[r].req.endpoint = "/api/recommendations"
                    /\ runs'[r].req.body.context.mood = currentEmotion'
          /\ Reload => currentEmotion' = NULL
          /\ currentEmotion' /= currentEmotion =>
                \/ Reload
                \/ \E r \in InFlight : \E resp \in Responses(runs[r].req) :
                       Succeeded(resp) /\ MoodAnalyzed(r, resp)]_vars

\* the analysis succeeded, the recommendations call failed, the emotion stays
C8_Witness ==
    /\ started = 1 /\ reloads = 0
    /\ alerts = 1
    /\ dom.sentimentAnalysis.kind = "sentiment"
    /\ currentEmotion = dom.sentimentAnalysis.sentiment.primary_emotion
    /\ \A r \in RunIds : runs[r] = Idle

\* C9: a search sends currentEmotion as it is when the search is triggered, its
\* answer is rendered whatever currentEmotion has become, and only a search
\* answer (or a reload) changes the search results.
C9_SearchUsesEmotionAtTrigger ==
    [][/\ Triggered => \A input \in TextInputs :
             (~OnlyWhitespace(input) /\ PerformSearch(input)) =>
                 runs'[started + 1].req.body.emotion_context = currentEmotion
       /\ \A r \in InFlight : Stepped(r) => \A resp \in Responses(runs[r].req) :
             (Succeeded(resp) /\ SearchDone(r, resp)) =>
                 /\ searchShownFor'.requested = runs[r].req.body.emotion_context
                 /\ dom'.searchResults.kind \in {"results", "empty-message"}
       /\ (dom'.searchResults /= dom.searchResults \/ searchShownFor' /= searchShownFor) =>
             \/ Reload
             \/ \E r \in InFlight : \E resp \in Responses(runs[r].req) :
                    Succeeded(resp) /\ SearchDone(r, resp)]_vars

\* the mood flow started first, the search was sent with the emotion held
\* before the analysis, and its results were rendered after the update
C9_Witness ==
    /\ started = 2 /\ reloads = 0
    /\ runs[1].type = "mood" /\ runs[1].pc = "recommend"
    /\ runs[2] = Idle
    /\ dom.searchResults.kind = "results"
    /\ searchShownFor.requested = NULL
    /\ searchShownFor.rendered_under /= NULL
    /\ currentEmotion = searchShownFor.rendered_under

\* C10: every successful similar-products answer overwrites the overlay with
\* its own product and opens it once, whichever run was triggered last; nothing
\* else touches the overlay.
C10_LastResponseWins ==
    [][/\ \A r \in InFlight : Stepped(r) => \A resp \in Responses(runs[r].req) :
             (Succeeded(resp) /\ ViewSimilar(r, resp)) =>
                 /\ dom'.productModal.open
                 /\ dom'.productModal.title = runs[r].product
                 /\ modalShown' = Append(modalShown, <<r, runs[r].product>>)
       /\ (dom'.productModal /= dom.productModal \/ modalShown' /= modalShown) =>
             \/ Reload
             \/ \E r \in InFlight : \E resp \in Responses(runs[r].req) :
                    Succeeded(resp) /\ ViewSimilar(r, resp)]_vars

\* two overlapping views of different products: the one triggered later was
\* answered first, and the overlay shows the one triggered earlier
C10_Witness ==
    /\ Len(modalShown) = 2
    /\ modalShown[1][1] > modalShown[2][1]
    /\ modalShown[1][2] /= modalShown[2][2]
    /\ dom.productModal.title = modalShown[2][2]

====
